---- MODULE Spec2Model ----
(***************************************************************************)
(* State-machine model of the CPU scheduling simulator core                *)
(* (cpu_scheduler_simulator.py): the four timeline builders                *)
(* (simulate_fcfs, simulate_sjf_np, simulate_priority_np, simulate_rr),    *)
(* the metrics calculator (compute_metrics) and the dispatch routine       *)
(* (run_scheduler).  One action per loop iteration of a builder; the       *)
(* metrics calculator is one action.                                       *)
(***************************************************************************)
EXTENDS Integers, Sequences, FiniteSets, TLC

\* ---------------------------------------------------------------- bounds
MaxArrival  == 2
MaxBurst    == 3
MaxPriority == 1
MaxQuantum  == 2

\* Process identifiers, in the order the i-th submitted process receives them.
Pids == <<"P2", "P3", "P1">>

IDLE == "IDLE"

Algos == {"FCFS", "SJF", "Priority", "Round Robin", "SRTF"}

\* quantum=None is <<>>, quantum=q is <<q>>.
None == <<>>

\* the discipline names run_scheduler recognises
Recognized == {"FCFS", "SJF", "Priority", "Round Robin"}

\* the exceptions a run can raise, as "Type: message"
QuantumError     == "ValueError: Quantum must be > 0"
UnknownAlgoError == "ValueError: Unknown scheduling algorithm."
NoneQuantumError == "TypeError: '<=' not supported between instances of 'NoneType' and 'int'"
DivisionError    == "ZeroDivisionError: division by zero"

VARIABLES
    processes,    \* the caller's process list (argument of run_scheduler)
    algo,         \* the discipline name (argument of run_scheduler)
    quantum,      \* the quantum argument: None or <<q>>
    pc,           \* position of the run: "call", the running builder, "done", "raised"
    error,        \* the exception raised, "" when none
    sortedProcs,  \* local `processes` of simulate_fcfs / simulate_rr (sorted copy)
    remList,      \* local `remaining` of simulate_sjf_np / simulate_priority_np
    idx,          \* loop position of simulate_fcfs, `idx` of simulate_rr
    time,         \* local `time` of the running builder
    gantt,        \* local `gantt` of the running builder, then the returned Timeline
    ready,        \* local `ready` of simulate_rr (FIFO queue)
    remaining,    \* local `remaining` of simulate_rr (pid -> remaining burst)
    first_start,  \* local `first_start` of simulate_rr (pid -> None or <<t>>)
    metrics,      \* returned per-process metrics map
    summary,      \* returned summary
    ui            \* the dashboard's process form (entry texts) and last message box

vars == <<processes, algo, quantum, pc, error, sortedProcs, remList, idx, time,
          gantt, ready, remaining, first_start, metrics, summary, ui>>

\* ------------------------------------------------------------ data model
\* class Process
Process(pid, arrival, burst, priority) ==
    [pid |-> pid, arrival |-> arrival, burst |-> burst, priority |-> priority]

\* a Gantt block {"pid":, "start":, "end":}
Block(pid, start, end) == [pid |-> pid, start |-> start, end |-> end]

\* ------------------------------------------------------------ helpers
\* mutant of InsertStable: an unstable sort, equal arrivals end up reversed
RECURSIVE InsertBeforeEqual(_, _)
InsertBeforeEqual(s, p) ==
    IF s = <<>> THEN <<p>>
    ELSE IF s[Len(s)].arrival < p.arrival THEN Append(s, p)
    ELSE Append(InsertBeforeEqual(SubSeq(s, 1, Len(s) - 1), p), s[Len(s)])

\* list.insert keeping equal keys in their original order: the position
\* sorted() gives an element appended to an already sorted list.
RECURSIVE InsertStable(_, _)
InsertStable(s, p) ==
    IF s = <<>> THEN <<p>>
    ELSE IF s[Len(s)].arrival <= p.arrival THEN Append(s, p)
    ELSE Append(InsertStable(SubSeq(s, 1, Len(s) - 1), p), s[Len(s)])

\* sorted(processes, key=lambda p: p.arrival): a stable sort
RECURSIVE SortedByArrival(_)
SortedByArrival(s) ==
    IF s = <<>> THEN <<>>
    ELSE InsertStable(SortedByArrival(SubSeq(s, 1, Len(s) - 1)), s[Len(s)])

\* ready = [p for p in remaining if p.arrival <= time]
ReadyAt(rem, t) == SelectSeq(rem, LAMBDA p : p.arrival <= t)

\* mutant of BurstKey: the ready process is selected by arrival, not burst
BurstKeyIsArrival(x) == <<x.arrival>>

\* key=lambda x: x.burst
BurstKey(x) == <<x.burst>>

\* key=lambda x: (x.priority, x.arrival)
PriorityKey(x) == <<x.priority, x.arrival>>

\* mutant of KeyLess: <= instead of <, so min keeps the last minimal element
RECURSIVE KeyLessOrEqual(_, _)
KeyLessOrEqual(k1, k2) ==
    IF k1 = <<>> THEN TRUE
    ELSE IF Head(k1) # Head(k2) THEN Head(k1) < Head(k2)
    ELSE KeyLessOrEqual(Tail(k1), Tail(k2))

\* Python's < on keys: tuples of equal length compared lexicographically
RECURSIVE KeyLess(_, _)
KeyLess(k1, k2) ==
    IF k1 = <<>> THEN FALSE
    ELSE IF Head(k1) # Head(k2) THEN Head(k1) < Head(k2)
    ELSE KeyLess(Tail(k1), Tail(k2))

\* Python's min(iterable, key=...): scans left to right and replaces the
\* current best only by an element with a strictly smaller key, so it
\* returns the first element with the minimal key.  keys[i] is the key of
\* the i-th element; the result is an index.
RECURSIVE MinScan(_, _, _)
MinScan(keys, best, i) ==
    IF i > Len(keys) THEN best
    ELSE MinScan(keys, IF KeyLess(keys[i], keys[best]) THEN i ELSE best, i + 1)

MinIndex(keys) == MinScan(keys, 1, 2)

\* list.remove(p): deletes the first element equal to p
RemoveFirst(s, p) ==
    LET i == CHOOSE k \in 1..Len(s) : s[k] = p /\ \A j \in 1..(k - 1) : s[j] # p
    IN  SubSeq(s, 1, i - 1) \o SubSeq(s, i + 1, Len(s))

\* ------------------------------------------------------------ inputs
\* every list of at most Len(Pids) processes with distinct identifiers,
\* arrival >= 0, burst > 0 and a priority from the given set
BoundedInputs(priorities) ==
    LET ProcFields == (0..MaxArrival) \X (1..MaxBurst) \X priorities
    IN  { [i \in DOMAIN f |-> Process(Pids[i], f[i][1], f[i][2], f[i][3])] :
            f \in UNION {[1..m -> ProcFields] : m \in 0..Len(Pids)} }

\* Process.__init__'s default: priority=0
DefaultPriority == 0

\* the worked examples of the specification's testable properties
ExampleTwo      == <<Process("P1", 0, 5, 0), Process("P2", 1, 3, 0)>>
ExampleSjf      == <<Process("P1", 0, 7, 0), Process("P2", 2, 4, 0), Process("P3", 4, 1, 0)>>
ExamplePriority == <<Process("P1", 0, 4, 2), Process("P2", 0, 3, 1)>>

Examples == {ExampleTwo, ExampleSjf, ExamplePriority}

EmptyMap == [x \in {} |-> 0]

\* the process form with every entry empty and no message box shown
BlankUi == [entry_pid |-> "", entry_arr |-> "", entry_burst |-> "", entry_pr |-> "",
            dialog |-> ""]

\* The priority field is varied for the discipline that reads it and left
\* at its default for the others.
Init ==
    /\ algo \in Algos
    /\ processes \in Examples \cup
          BoundedInputs(IF algo = "Priority" THEN 0..MaxPriority ELSE {DefaultPriority})
    /\ quantum \in IF algo = "Round Robin"
                   THEN {None} \cup {<<q>> : q \in (-1)..MaxQuantum}
                   ELSE {None}
    /\ pc = "call"
    /\ error = ""
    /\ sortedProcs = <<>>
    /\ remList = <<>>
    /\ idx = 0
    /\ time = 0
    /\ gantt = <<>>
    /\ ready = <<>>
    /\ remaining = EmptyMap
    /\ first_start = EmptyMap
    /\ metrics = EmptyMap
    /\ summary = EmptyMap
    /\ ui = BlankUi

\* ------------------------------------------------------------ FCFS
\* run_scheduler -> simulate_fcfs: the sort and the initialisation
CallFcfs ==
    /\ pc = "call"
    /\ algo = "FCFS"
    /\ pc' = "fcfs"
    /\ sortedProcs' = SortedByArrival(processes)
    /\ gantt' = <<>>
    /\ time' = 0
    /\ idx' = 1
    /\ UNCHANGED <<ui, processes, algo, quantum, error, remList, ready, remaining,
                   first_start, metrics, summary>>

\* mutant of FcfsStep: the idle gap advances the clock but emits no IDLE block
FcfsStepNoIdleBlock ==
    /\ pc = "fcfs"
    /\ idx <= Len(sortedProcs)
    /\ LET p      == sortedProcs[idx]
           start  == IF time < p.arrival THEN p.arrival ELSE time
           end    == start + p.burst
       IN  /\ gantt' = Append(gantt, Block(p.pid, start, end))
           /\ time' = end
    /\ idx' = idx + 1
    /\ UNCHANGED <<ui, processes, algo, quantum, pc, error, sortedProcs, remList, ready,
                   remaining, first_start, metrics, summary>>

\* one iteration of `for p in processes`
FcfsStep ==
    /\ pc = "fcfs"
    /\ idx <= Len(sortedProcs)
    /\ LET p      == sortedProcs[idx]
           idle   == time < p.arrival
           g1     == IF idle THEN Append(gantt, Block(IDLE, time, p.arrival)) ELSE gantt
           start  == IF idle THEN p.arrival ELSE time
           end    == start + p.burst
       IN  /\ gantt' = Append(g1, Block(p.pid, start, end))
           /\ time' = end
    /\ idx' = idx + 1
    /\ UNCHANGED <<ui, processes, algo, quantum, pc, error, sortedProcs, remList, ready,
                   remaining, first_start, metrics, summary>>

\* the `for p in processes` loop of simulate_fcfs from position i on, as a
\* function of the locals `time` and `gantt`
RECURSIVE FcfsLoop(_, _, _, _)
FcfsLoop(procs, i, t, g) ==
    IF i > Len(procs) THEN g
    ELSE LET p     == procs[i]
             idle  == t < p.arrival
             g1    == IF idle THEN Append(g, Block(IDLE, t, p.arrival)) ELSE g
             start == IF idle THEN p.arrival ELSE t
             end   == start + p.burst
         IN  FcfsLoop(procs, i + 1, end, Append(g1, Block(p.pid, start, end)))

\* simulate_fcfs(processes): the Timeline it returns
simulate_fcfs(procs) == FcfsLoop(SortedByArrival(procs), 1, 0, <<>>)

\* ------------------------------------------------------------ SJF
\* mutant of CallSjf: the caller's list is sorted in place and used as the
\* working list
CallSjfSortsInPlace ==
    /\ pc = "call"
    /\ algo = "SJF"
    /\ pc' = "sjf"
    /\ processes' = SortedByArrival(processes)
    /\ remList' = SortedByArrival(processes)
    /\ gantt' = <<>>
    /\ time' = 0
    /\ UNCHANGED <<ui, algo, quantum, error, sortedProcs, idx, ready, remaining,
                   first_start, metrics, summary>>

\* simulate_sjf_np: remaining = sorted(processes, ...), a new list
CallSjf ==
    /\ pc = "call"
    /\ algo = "SJF"
    /\ pc' = "sjf"
    /\ remList' = SortedByArrival(processes)
    /\ gantt' = <<>>
    /\ time' = 0
    /\ UNCHANGED <<ui, processes, algo, quantum, error, sortedProcs, idx, ready, remaining,
                   first_start, metrics, summary>>

\* mutant of IdleBranch: the clock jumps to the last arrival still waiting
IdleBranchToLastArrival ==
    /\ remList # <<>>
    /\ ReadyAt(remList, time) = <<>>
    /\ LET next_arrival == remList[Len(remList)].arrival
       IN  /\ gantt' = Append(gantt, Block(IDLE, time, next_arrival))
           /\ time' = next_arrival
    /\ UNCHANGED <<ui, processes, algo, quantum, pc, error, sortedProcs, remList, idx, ready,
                   remaining, first_start, metrics, summary>>

\* the `if not ready:` branch shared by simulate_sjf_np and simulate_priority_np
IdleBranch ==
    /\ remList # <<>>
    /\ ReadyAt(remList, time) = <<>>
    /\ LET next_arrival == remList[1].arrival
       IN  /\ gantt' = Append(gantt, Block(IDLE, time, next_arrival))
           /\ time' = next_arrival
    /\ UNCHANGED <<ui, processes, algo, quantum, pc, error, sortedProcs, remList, idx, ready,
                   remaining, first_start, metrics, summary>>

\* mutant of DispatchBranch: the running process is cut off when the next
\* waiting process arrives
DispatchBranchPreempted(p) ==
    LET later == {remList[i].arrival : i \in 1..Len(remList)} \cap (time + 1)..(time + p.burst)
        end   == IF later = {} THEN time + p.burst
                 ELSE CHOOSE a \in later : \A b \in later : a <= b
    IN  /\ remList' = RemoveFirst(remList, p)
        /\ gantt' = Append(gantt, Block(p.pid, time, end))
        /\ time' = end
        /\ UNCHANGED <<ui, processes, algo, quantum, pc, error, sortedProcs, idx, ready,
                       remaining, first_start, metrics, summary>>

\* the tail shared by both dispatch branches: remaining.remove(p), then p
\* runs from `time` to completion
DispatchBranch(p) ==
    /\ remList' = RemoveFirst(remList, p)
    /\ gantt' = Append(gantt, Block(p.pid, time, time + p.burst))
    /\ time' = time + p.burst
    /\ UNCHANGED <<ui, processes, algo, quantum, pc, error, sortedProcs, idx, ready,
                   remaining, first_start, metrics, summary>>

SjfIdle == pc = "sjf" /\ IdleBranch

\* p = min(ready, key=lambda x: x.burst), then the dispatch
SjfDispatch ==
    /\ pc = "sjf"
    /\ remList # <<>>
    /\ LET rdy == ReadyAt(remList, time)
       IN  /\ rdy # <<>>
           /\ DispatchBranch(rdy[MinIndex([i \in 1..Len(rdy) |-> BurstKey(rdy[i])])])

\* ------------------------------------------------------------ Priority
CallPriority ==
    /\ pc = "call"
    /\ algo = "Priority"
    /\ pc' = "priority"
    /\ remList' = SortedByArrival(processes)
    /\ gantt' = <<>>
    /\ time' = 0
    /\ UNCHANGED <<ui, processes, algo, quantum, error, sortedProcs, idx, ready, remaining,
                   first_start, metrics, summary>>

PriorityIdle == pc = "priority" /\ IdleBranch

\* p = min(ready, key=lambda x: (x.priority, x.arrival)), then the dispatch
PriorityDispatch ==
    /\ pc = "priority"
    /\ remList # <<>>
    /\ LET rdy == ReadyAt(remList, time)
       IN  /\ rdy # <<>>
           /\ DispatchBranch(rdy[MinIndex([i \in 1..Len(rdy) |-> PriorityKey(rdy[i])])])

\* ------------------------------------------------------------ Round Robin
PidSet(s) == {s[i].pid : i \in 1..Len(s)}

\* a dict comprehension {p.pid: p.<field> for p in processes}: a later
\* process with the same pid overwrites an earlier one
LastWithPid(s, pid) ==
    s[CHOOSE i \in 1..Len(s) :
        s[i].pid = pid /\ \A j \in (i + 1)..Len(s) : s[j].pid # pid]

\* mutant of add_arrivals: a process is admitted one tick before it arrives
RECURSIVE add_arrivalsOneTickEarly(_, _, _, _)
add_arrivalsOneTickEarly(procs, rdy, i, current_time) ==
    IF i <= Len(procs) /\ procs[i].arrival <= current_time + 1
    THEN add_arrivalsOneTickEarly(procs, Append(rdy, procs[i]), i + 1, current_time)
    ELSE [ready |-> rdy, idx |-> i]

\* simulate_rr.add_arrivals(current_time), on the 1-based position i of the
\* next process not yet admitted; returns the new ready queue and position
RECURSIVE add_arrivals(_, _, _, _)
add_arrivals(procs, rdy, i, current_time) ==
    IF i <= Len(procs) /\ procs[i].arrival <= current_time
    THEN add_arrivals(procs, Append(rdy, procs[i]), i + 1, current_time)
    ELSE [ready |-> rdy, idx |-> i]

\* mutant of Min: the slice always lasts a full quantum
MinTakesQuantum(a, b) == a

\* mutant of Min: the slice always lasts the whole remaining burst
MinTakesRemaining(a, b) == b

\* min(quantum, remaining[p.pid])
Min(a, b) == IF a <= b THEN a ELSE b

\* run_scheduler -> simulate_rr with quantum=None: `None <= 0` raises TypeError
CallRrNoQuantum ==
    /\ pc = "call"
    /\ algo = "Round Robin"
    /\ quantum = None
    /\ pc' = "raised"
    /\ error' = NoneQuantumError
    /\ UNCHANGED <<ui, processes, algo, quantum, sortedProcs, remList, idx, time, gantt,
                   ready, remaining, first_start, metrics, summary>>

\* if quantum <= 0: raise ValueError("Quantum must be > 0")
CallRrBadQuantum ==
    /\ pc = "call"
    /\ algo = "Round Robin"
    /\ quantum # None
    /\ quantum[1] <= 0
    /\ pc' = "raised"
    /\ error' = QuantumError
    /\ UNCHANGED <<ui, processes, algo, quantum, sortedProcs, remList, idx, time, gantt,
                   ready, remaining, first_start, metrics, summary>>

\* mutant of CallRr: the process list is used in submission order, unsorted
CallRrUnsorted ==
    /\ pc = "call"
    /\ algo = "Round Robin"
    /\ quantum # None
    /\ quantum[1] > 0
    /\ pc' = "rr"
    /\ LET procs == processes
           adm   == add_arrivals(procs, <<>>, 1, 0)
       IN  /\ sortedProcs' = procs
           /\ remaining' = [pid \in PidSet(procs) |-> LastWithPid(procs, pid).burst]
           /\ first_start' = [pid \in PidSet(procs) |-> None]
           /\ ready' = adm.ready
           /\ idx' = adm.idx
    /\ gantt' = <<>>
    /\ time' = 0
    /\ UNCHANGED <<ui, processes, algo, quantum, error, remList, metrics, summary>>

\* the initialisation of simulate_rr up to and including add_arrivals(time)
CallRr ==
    /\ pc = "call"
    /\ algo = "Round Robin"
    /\ quantum # None
    /\ quantum[1] > 0
    /\ pc' = "rr"
    /\ LET procs == SortedByArrival(processes)
           adm   == add_arrivals(procs, <<>>, 1, 0)
       IN  /\ sortedProcs' = procs
           /\ remaining' = [pid \in PidSet(procs) |-> LastWithPid(procs, pid).burst]
           /\ first_start' = [pid \in PidSet(procs) |-> None]
           /\ ready' = adm.ready
           /\ idx' = adm.idx
    /\ gantt' = <<>>
    /\ time' = 0
    /\ UNCHANGED <<ui, processes, algo, quantum, error, remList, metrics, summary>>

\* mutant of RrIdle: admission rescans the list from its start
RrIdleRescansFromStart ==
    /\ pc = "rr"
    /\ ready = <<>>
    /\ idx <= Len(sortedProcs)
    /\ LET next_arrival == sortedProcs[idx].arrival
           adm          == add_arrivals(sortedProcs, ready, 1, next_arrival)
       IN  /\ gantt' = Append(gantt, Block(IDLE, time, next_arrival))
           /\ time' = next_arrival
           /\ ready' = adm.ready
           /\ idx' = adm.idx
    /\ UNCHANGED <<ui, processes, algo, quantum, pc, error, sortedProcs, remList, remaining,
                   first_start, metrics, summary>>

\* the `if not ready:` branch of the simulate_rr loop
RrIdle ==
    /\ pc = "rr"
    /\ ready = <<>>
    /\ idx <= Len(sortedProcs)
    /\ LET next_arrival == sortedProcs[idx].arrival
           adm          == add_arrivals(sortedProcs, ready, idx, next_arrival)
       IN  /\ gantt' = Append(gantt, Block(IDLE, time, next_arrival))
           /\ time' = next_arrival
           /\ ready' = adm.ready
           /\ idx' = adm.idx
    /\ UNCHANGED <<ui, processes, algo, quantum, pc, error, sortedProcs, remList, remaining,
                   first_start, metrics, summary>>

\* mutant of RrSlice: the process is re-queued before the new arrivals are admitted
RrSliceRequeueFirst ==
    /\ pc = "rr"
    /\ ready # <<>>
    /\ LET p        == Head(ready)
           run_time == Min(quantum[1], remaining[p.pid])
           end      == time + run_time
           left     == remaining[p.pid] - run_time
           adm      == add_arrivals(sortedProcs,
                                    IF left > 0 THEN Append(Tail(ready), p) ELSE Tail(ready),
                                    idx, end)
       IN  /\ first_start' = IF first_start[p.pid] = None
                             THEN [first_start EXCEPT ![p.pid] = <<time>>]
                             ELSE first_start
           /\ gantt' = Append(gantt, Block(p.pid, time, end))
           /\ time' = end
           /\ remaining' = [remaining EXCEPT ![p.pid] = left]
           /\ ready' = adm.ready
           /\ idx' = adm.idx
    /\ UNCHANGED <<ui, processes, algo, quantum, pc, error, sortedProcs, remList, metrics,
                   summary>>

\* mutant of RrSlice: the slice is not subtracted from the remaining burst
RrSliceKeepsRemaining ==
    /\ pc = "rr"
    /\ ready # <<>>
    /\ LET p        == Head(ready)
           run_time == Min(quantum[1], remaining[p.pid])
           end      == time + run_time
           adm      == add_arrivals(sortedProcs, Tail(ready), idx, end)
       IN  /\ first_start' = IF first_start[p.pid] = None
                             THEN [first_start EXCEPT ![p.pid] = <<time>>]
                             ELSE first_start
           /\ gantt' = Append(gantt, Block(p.pid, time, end))
           /\ time' = end
           /\ ready' = Append(adm.ready, p)
           /\ idx' = adm.idx
    /\ UNCHANGED <<ui, processes, algo, quantum, pc, error, sortedProcs, remList, remaining,
                   metrics, summary>>

\* one iteration of the simulate_rr loop that runs a slice
RrSlice ==
    /\ pc = "rr"
    /\ ready # <<>>
    /\ LET p        == Head(ready)
           run_time == Min(quantum[1], remaining[p.pid])
           end      == time + run_time
           left     == remaining[p.pid] - run_time
           adm      == add_arrivals(sortedProcs, Tail(ready), idx, end)
       IN  /\ first_start' = IF first_start[p.pid] = None
                             THEN [first_start EXCEPT ![p.pid] = <<time>>]
                             ELSE first_start
           /\ gantt' = Append(gantt, Block(p.pid, time, end))
           /\ time' = end
           /\ remaining' = [remaining EXCEPT ![p.pid] = left]
           /\ ready' = IF left > 0 THEN Append(adm.ready, p) ELSE adm.ready
           /\ idx' = adm.idx
    /\ UNCHANGED <<ui, processes, algo, quantum, pc, error, sortedProcs, remList, metrics,
                   summary>>

\* ------------------------------------------------------------ metrics
\* mutant of ScanBlocks: first_start is overwritten by every block of the pid
RECURSIVE ScanBlocksLastStart(_, _, _)
ScanBlocksLastStart(g, i, acc) ==
    IF i > Len(g) THEN acc
    ELSE LET pid == g[i].pid
         IN  IF pid = IDLE THEN ScanBlocksLastStart(g, i + 1, acc)
             ELSE ScanBlocksLastStart(g, i + 1,
                    [acc EXCEPT
                        !.completion[pid] = IF g[i].end > @ THEN g[i].end ELSE @,
                        !.first_start[pid] = <<g[i].start>>])

\* the `for block in gantt:` loop of compute_metrics, from block i on;
\* acc holds the dicts `completion` and `first_start`
RECURSIVE ScanBlocks(_, _, _)
ScanBlocks(g, i, acc) ==
    IF i > Len(g) THEN acc
    ELSE LET pid == g[i].pid
         IN  IF pid = IDLE THEN ScanBlocks(g, i + 1, acc)
             ELSE ScanBlocks(g, i + 1,
                    [acc EXCEPT
                        !.completion[pid] = IF g[i].end > @ THEN g[i].end ELSE @,
                        !.first_start[pid] =
                            IF @ = None \/ g[i].start < @[1] THEN <<g[i].start>> ELSE @])

\* mutant of MetricsOf: the burst is not subtracted from the waiting time
MetricsOfWaitIsTurnaround(procs, scan, pid) ==
    LET ct  == scan.completion[pid]
        tat == ct - LastWithPid(procs, pid).arrival
        rt  == IF scan.first_start[pid] # None
               THEN scan.first_start[pid][1] - LastWithPid(procs, pid).arrival
               ELSE 0
    IN  [CT |-> ct, TAT |-> tat, WT |-> tat, RT |-> rt]

\* the metrics of one pid, from the dicts built by compute_metrics
MetricsOf(procs, scan, pid) ==
    LET ct  == scan.completion[pid]
        tat == ct - LastWithPid(procs, pid).arrival
        wt  == tat - LastWithPid(procs, pid).burst
        rt  == IF scan.first_start[pid] # None
               THEN scan.first_start[pid][1] - LastWithPid(procs, pid).arrival
               ELSE 0
    IN  [CT |-> ct, TAT |-> tat, WT |-> wt, RT |-> rt]

\* the running totals total_wt / total_tat over `for pid in pids`
RECURSIVE SumOver(_, _, _)
SumOver(procs, m, field) ==
    IF procs = <<>> THEN 0
    ELSE m[Head(procs).pid][field] + SumOver(Tail(procs), m, field)

\* a / b as the exact rational a/b
Quotient(a, b) == [num |-> a, den |-> b]

\* compute_metrics(processes, gantt) for a non-empty process list
compute_metrics(procs, g) ==
    LET scan == ScanBlocks(g, 1,
                   [completion  |-> [pid \in PidSet(procs) |-> 0],
                    first_start |-> [pid \in PidSet(procs) |-> None]])
        m    == [pid \in PidSet(procs) |-> MetricsOf(procs, scan, pid)]
        total_time == IF g # <<>> THEN g[Len(g)].end ELSE 0
    IN  [metrics |-> m,
         summary |-> [avg_wt     |-> Quotient(SumOver(procs, m, "WT"), Len(procs)),
                      avg_tat    |-> Quotient(SumOver(procs, m, "TAT"), Len(procs)),
                      throughput |-> IF total_time # 0
                                     THEN Quotient(Len(procs), total_time)
                                     ELSE Quotient(0, 1),
                      total_time |-> total_time]]

\* the running builder's loop condition is false: it returns gantt
BuilderReturns ==
    \/ pc = "fcfs" /\ idx > Len(sortedProcs)
    \/ pc \in {"sjf", "priority"} /\ remList = <<>>
    \/ pc = "rr" /\ ready = <<>> /\ idx > Len(sortedProcs)

\* run_scheduler: the builder returns, compute_metrics runs, the triple is returned
ReturnMetrics ==
    /\ BuilderReturns
    /\ processes # <<>>
    /\ LET r == compute_metrics(processes, gantt)
       IN  /\ metrics' = r.metrics
           /\ summary' = r.summary
    /\ pc' = "done"
    /\ UNCHANGED <<ui, processes, algo, quantum, error, sortedProcs, remList, idx, time,
                   gantt, ready, remaining, first_start>>

\* compute_metrics on an empty list: total_wt / len(pids) divides by zero
ReturnEmpty ==
    /\ BuilderReturns
    /\ processes = <<>>
    /\ pc' = "raised"
    /\ error' = DivisionError
    /\ UNCHANGED <<ui, processes, algo, quantum, sortedProcs, remList, idx, time, gantt,
                   ready, remaining, first_start, metrics, summary>>

\* mutant of CallUnknown: an unrecognised name falls back to FCFS
CallUnknownRunsFcfs ==
    /\ pc = "call"
    /\ algo \notin Recognized
    /\ pc' = "fcfs"
    /\ sortedProcs' = SortedByArrival(processes)
    /\ gantt' = <<>>
    /\ time' = 0
    /\ idx' = 1
    /\ UNCHANGED <<ui, processes, algo, quantum, error, remList, ready, remaining,
                   first_start, metrics, summary>>

\* run_scheduler: else: raise ValueError("Unknown scheduling algorithm.")
CallUnknown ==
    /\ pc = "call"
    /\ algo \notin Recognized
    /\ pc' = "raised"
    /\ error' = UnknownAlgoError
    /\ UNCHANGED <<ui, processes, algo, quantum, sortedProcs, remList, idx, time, gantt,
                   ready, remaining, first_start, metrics, summary>>

Next ==
    \/ CallFcfs
    \/ FcfsStep
    \/ CallSjf
    \/ SjfIdle
    \/ SjfDispatch
    \/ CallPriority
    \/ PriorityIdle
    \/ PriorityDispatch
    \/ CallRrNoQuantum
    \/ CallRrBadQuantum
    \/ CallRr
    \/ RrIdle
    \/ RrSlice
    \/ ReturnMetrics
    \/ ReturnEmpty
    \/ CallUnknown

Spec == Init /\ [][Next]_vars

\* ------------------------------------------------------------ a run as a whole
\* before the call: no arguments supplied yet
Idle ==
    /\ pc = "idle"
    /\ processes = <<>>
    /\ algo = "FCFS"
    /\ quantum = None
    /\ error = ""
    /\ sortedProcs = <<>>
    /\ remList = <<>>
    /\ idx = 0
    /\ time = 0
    /\ gantt = <<>>
    /\ ready = <<>>
    /\ remaining = EmptyMap
    /\ first_start = EmptyMap
    /\ metrics = EmptyMap
    /\ summary = EmptyMap
    /\ ui = BlankUi

\* the caller selects the discipline and, for Round Robin, the quantum
Select ==
    /\ pc = "idle"
    /\ pc' = "collect"
    /\ algo' \in Algos
    /\ quantum' \in IF algo' = "Round Robin"
                    THEN {None} \cup {<<q>> : q \in (-1)..MaxQuantum}
                    ELSE {None}
    /\ UNCHANGED <<ui, processes, error, sortedProcs, remList, idx, time, gantt, ready,
                   remaining, first_start, metrics, summary>>

\* the caller constructs one more Process and appends it to its list
Collect ==
    /\ pc = "collect"
    /\ Len(processes) < Len(Pids)
    /\ \E arrival \in 0..MaxArrival, burst \in 1..MaxBurst,
          priority \in IF algo = "Priority" THEN 0..MaxPriority ELSE {DefaultPriority} :
          processes' = Append(processes,
                              Process(Pids[Len(processes) + 1], arrival, burst, priority))
    /\ UNCHANGED <<ui, algo, quantum, pc, error, sortedProcs, remList, idx, time, gantt,
                   ready, remaining, first_start, metrics, summary>>

\* the caller invokes run_scheduler(processes, algo, quantum)
Invoke ==
    /\ pc = "collect"
    /\ pc' = "call"
    /\ UNCHANGED <<ui, processes, algo, quantum, error, sortedProcs, remList, idx, time,
                   gantt, ready, remaining, first_start, metrics, summary>>

\* The caller may stop before it calls; a call that has started is sequential
\* code, so a step of it that can be taken is taken.
FairSpec == Idle /\ [][Select \/ Collect \/ Invoke \/ Next]_vars /\ WF_vars(Next)

\* ------------------------------------------------------------ the dashboard
\* the process list of the dashboard is capped at this many processes
MaxUiProcs == 2

\* the texts a user types into the entries of the process form
PidTexts == {"", "P1", " P2 "}
ArrTexts == {"", "x", "-1", " 1"}
BurstTexts == {"", "x", "0", "2"}
PrTexts == {"", "x", "1"}

\* the texts a user types into the quantum entry
QuantumTexts == {"", "x", "0", "2"}

\* str.strip() on the texts above
Strip(t) ==
    CASE t = " P2 " -> "P2"
      [] t = " 1"   -> "1"
      [] OTHER      -> t

\* int(t) succeeds on an optionally signed run of digits
IsIntLiteral(t) == t \in {"-1", "0", "1", "2"}

\* int(t) for such a literal
IntValue(t) ==
    CASE t = "-1" -> 0 - 1
      [] t = "0"  -> 0
      [] t = "1"  -> 1
      [] t = "2"  -> 2

\* DashboardApp.__init__: an empty process list, FCFS selected, a blank form
UiInit ==
    /\ pc = "ui"
    /\ processes = <<>>
    /\ algo = "FCFS"
    /\ quantum = None
    /\ error = ""
    /\ sortedProcs = <<>>
    /\ remList = <<>>
    /\ idx = 0
    /\ time = 0
    /\ gantt = <<>>
    /\ ready = <<>>
    /\ remaining = EmptyMap
    /\ first_start = EmptyMap
    /\ metrics = EmptyMap
    /\ summary = EmptyMap
    /\ ui = BlankUi

FormBlank ==
    ui.entry_pid = "" /\ ui.entry_arr = "" /\ ui.entry_burst = "" /\ ui.entry_pr = ""

\* the user fills in the blank process form
Type ==
    /\ pc = "ui"
    /\ FormBlank
    /\ \E p \in PidTexts, a \in ArrTexts, b \in BurstTexts, r \in PrTexts :
          ui' = [entry_pid |-> p, entry_arr |-> a, entry_burst |-> b, entry_pr |-> r,
                 dialog |-> ""]
    /\ ~FormBlank'
    /\ UNCHANGED <<processes, algo, quantum, pc, error, sortedProcs, remList, idx, time,
                   gantt, ready, remaining, first_start, metrics, summary>>

\* the user deletes what the process form holds
Wipe ==
    /\ pc = "ui"
    /\ ~FormBlank
    /\ ui' = BlankUi
    /\ UNCHANGED <<processes, algo, quantum, pc, error, sortedProcs, remList, idx, time,
                   gantt, ready, remaining, first_start, metrics, summary>>

\* mutant of ParseFails: the range check `arr_i < 0 or burst_i <= 0` is missing
ParseFailsNoRangeCheck(arr, burst, pr) ==
    \/ ~IsIntLiteral(arr)
    \/ ~IsIntLiteral(burst)
    \/ pr # "" /\ ~IsIntLiteral(pr)

\* the `try:` block of add_process raises ValueError
ParseFails(arr, burst, pr) ==
    \/ ~IsIntLiteral(arr)
    \/ ~IsIntLiteral(burst)
    \/ pr # "" /\ ~IsIntLiteral(pr)
    \/ IntValue(arr) < 0
    \/ IntValue(burst) <= 0

\* DashboardApp.add_process
AddProcess ==
    /\ pc = "ui"
    /\ Len(processes) < MaxUiProcs
    /\ LET pid   == Strip(ui.entry_pid)
           arr   == Strip(ui.entry_arr)
           burst == Strip(ui.entry_burst)
           pr    == Strip(ui.entry_pr)
       IN  IF pid = "" \/ arr = "" \/ burst = ""
           THEN /\ ui' = [ui EXCEPT !.dialog = "Input Error"]
                /\ UNCHANGED processes
           ELSE IF ParseFails(arr, burst, pr)
           THEN /\ ui' = [ui EXCEPT !.dialog = "Invalid Input"]
                /\ UNCHANGED processes
           ELSE /\ processes' = Append(processes,
                                       Process(pid, IntValue(arr), IntValue(burst),
                                               IF pr # "" THEN IntValue(pr) ELSE 0))
                /\ ui' = BlankUi
    /\ UNCHANGED <<algo, quantum, pc, error, sortedProcs, remList, idx, time, gantt,
                   ready, remaining, first_start, metrics, summary>>

\* DashboardApp.clear_processes
ClearProcesses ==
    /\ pc = "ui"
    /\ processes' = <<>>
    /\ ui' = [ui EXCEPT !.dialog = ""]
    /\ UNCHANGED <<algo, quantum, pc, error, sortedProcs, remList, idx, time, gantt,
                   ready, remaining, first_start, metrics, summary>>

\* DashboardApp.run_simulation up to the call of run_scheduler, on the
\* discipline the user selected and the quantum text the user typed
RunSimulation ==
    /\ pc = "ui"
    /\ \E choice \in Recognized, text \in QuantumTexts :
          LET qtxt == Strip(text)
          IN  /\ algo' = choice
              /\ IF choice = "Round Robin" /\ qtxt = ""
                 THEN /\ ui' = [ui EXCEPT !.dialog = "Missing Quantum"]
                      /\ UNCHANGED <<quantum, pc>>
                 ELSE IF choice = "Round Robin" /\ (~IsIntLiteral(qtxt) \/ IntValue(qtxt) <= 0)
                 THEN /\ ui' = [ui EXCEPT !.dialog = "Invalid Quantum"]
                      /\ UNCHANGED <<quantum, pc>>
                 ELSE /\ quantum' = IF choice = "Round Robin" THEN <<IntValue(qtxt)>> ELSE None
                      /\ pc' = "call"
                      /\ ui' = [ui EXCEPT !.dialog = ""]
    /\ UNCHANGED <<processes, error, sortedProcs, remList, idx, time, gantt, ready,
                   remaining, first_start, metrics, summary>>

\* run_simulation ends: after the return it displays the result, after an
\* exception the event loop reports it; the locals of the call are gone
RunSimulationEnds ==
    /\ pc \in {"done", "raised"}
    /\ pc' = "ui"
    /\ quantum' = None
    /\ error' = ""
    /\ sortedProcs' = <<>>
    /\ remList' = <<>>
    /\ idx' = 0
    /\ time' = 0
    /\ gantt' = <<>>
    /\ ready' = <<>>
    /\ remaining' = EmptyMap
    /\ first_start' = EmptyMap
    /\ metrics' = EmptyMap
    /\ summary' = EmptyMap
    /\ UNCHANGED <<processes, algo, ui>>

\* the dashboard: user events, its handlers, and the steps of the
\* run_scheduler calls that run_simulation makes
UiNext ==
    \/ Type
    \/ Wipe
    \/ AddProcess
    \/ ClearProcesses
    \/ RunSimulation
    \/ RunSimulationEnds
    \/ CallFcfs
    \/ FcfsStep
    \/ CallSjf
    \/ SjfIdle
    \/ SjfDispatch
    \/ CallPriority
    \/ PriorityIdle
    \/ PriorityDispatch
    \/ CallRr
    \/ RrIdle
    \/ RrSlice
    \/ ReturnMetrics
    \/ ReturnEmpty

UiSpec == UiInit /\ [][UiNext]_vars

\* ======================================================================
\* Properties
\* ======================================================================
\* a valid process set: unique pids, none the IDLE marker, arrival >= 0, burst > 0
ValidProcesses ==
    /\ \A i, j \in 1..Len(processes) : processes[i].pid = processes[j].pid => i = j
    /\ \A i \in 1..Len(processes) :
          /\ processes[i].pid # IDLE
          /\ processes[i].arrival >= 0
          /\ processes[i].burst > 0

\* a Timeline has been returned for a valid, non-empty process set
Returned == pc = "done" /\ processes # <<>> /\ ValidProcesses

Width(b) == b.end - b.start

\* the positions of the intervals of g owned by pid
Owned(g, pid) == {i \in 1..Len(g) : g[i].pid = pid}

RECURSIVE SumWidths(_, _)
SumWidths(g, I) ==
    IF I = {} THEN 0
    ELSE LET i == CHOOSE k \in I : TRUE
         IN  Width(g[i]) + SumWidths(g, I \ {i})

\* C1: the returned Timeline starts at tick 0, every interval (IDLE or not)
\* has end > start, and each interval ends where the next one starts, so the
\* intervals cover [0, makespan) with no gap and no overlap.
C1_TimelineContiguous ==
    Returned =>
        /\ gantt # <<>>
        /\ gantt[1].start = 0
        /\ \A i \in 1..Len(gantt) : gantt[i].end > gantt[i].start
        /\ \A i \in 1..(Len(gantt) - 1) : gantt[i].end = gantt[i + 1].start

\* C1 witness: a returned Round Robin Timeline with an IDLE gap in the middle
C1_Witness ==
    /\ Returned
    /\ algo = "Round Robin"
    /\ Len(gantt) >= 4
    /\ \E i \in 2..(Len(gantt) - 1) : gantt[i].pid = IDLE

\* C2: for every submitted process the widths of the intervals it owns sum
\* to its burst time exactly, and it owns at least one interval.
C2_BurstConserved ==
    Returned =>
        \A i \in 1..Len(processes) :
            /\ Owned(gantt, processes[i].pid) # {}
            /\ SumWidths(gantt, Owned(gantt, processes[i].pid)) = processes[i].burst

\* C2 witness: a returned Round Robin Timeline in which a process was
\* preempted, so its burst is spread over several intervals
C2_Witness ==
    /\ Returned
    /\ algo = "Round Robin"
    /\ Len(processes) >= 2
    /\ \E i \in 1..Len(processes) : Cardinality(Owned(gantt, processes[i].pid)) >= 2

\* the caller's process with the given pid
ProcOf(pid) == processes[CHOOSE i \in 1..Len(processes) : processes[i].pid = pid]

\* a Round Robin slice is about to run process Head(ready)
RrRunning == pc = "rr" /\ ready # <<>> /\ ValidProcesses

\* C3 (loop step): when a Round Robin slice ends at tick time' and the
\* process that ran still has remaining burst, every process that was not
\* yet admitted and has arrival <= time' is in the ready queue ahead of the
\* re-queued process, which is the queue's last element.
C3_StepAdmitsBeforeRequeue ==
    (RrRunning /\ remaining'[Head(ready).pid] > 0) =>
        /\ ready' # <<>>
        /\ ready'[Len(ready')] = Head(ready)
        /\ \A i \in idx..Len(sortedProcs) :
              sortedProcs[i].arrival <= time' =>
                  \E j \in 1..(Len(ready') - 1) : ready'[j] = sortedProcs[i]

\* C3 (returned Timeline): a process that arrives during a slice of p, or
\* exactly at its end tick, first runs before p's next slice.
C3_ArrivalsRunFirst ==
    (Returned /\ algo = "Round Robin") =>
        \A i, k \in 1..Len(gantt) :
            (i < k /\ gantt[i].pid # IDLE /\ gantt[k].pid = gantt[i].pid) =>
                \A n \in 1..Len(processes) :
                    (/\ processes[n].pid # gantt[i].pid
                     /\ gantt[i].start < processes[n].arrival
                     /\ processes[n].arrival <= gantt[i].end) =>
                        \E j \in (i + 1)..(k - 1) : gantt[j].pid = processes[n].pid

\* C3 (example): quantum 2 on [(P1,0,5),(P2,1,3)]
C3_Example ==
    (pc = "done" /\ algo = "Round Robin" /\ quantum = <<2>> /\ processes = ExampleTwo) =>
        gantt = <<Block("P1", 0, 2), Block("P2", 2, 4), Block("P1", 4, 6),
                  Block("P2", 6, 7), Block("P1", 7, 8)>>

\* C3: in Round Robin, arrivals up to and including the tick at which a
\* slice ends are appended to the ready queue before the just-run process is
\* re-appended, so they are dispatched ahead of it; quantum 2 on
\* [(P1,0,5),(P2,1,3)] yields [(P1,0,2),(P2,2,4),(P1,4,6),(P2,6,7),(P1,7,8)].
C3_AdmissionBeforeRequeue ==
    /\ [][C3_StepAdmitsBeforeRequeue]_vars
    /\ [](C3_ArrivalsRunFirst /\ C3_Example)

\* C3 witness: a slice has just ended at the very tick at which another
\* process arrives; that process sits in the queue ahead of the re-queued one
C3_Witness ==
    /\ pc = "rr"
    /\ ValidProcesses
    /\ Len(ready) >= 2
    /\ gantt # <<>>
    /\ gantt[Len(gantt)].pid = ready[Len(ready)].pid
    /\ remaining[ready[Len(ready)].pid] > 0
    /\ \E j \in 1..(Len(ready) - 1) :
          /\ ready[j].arrival = time
          /\ first_start[ready[j].pid] = None

\* C4: in a returned Round Robin Timeline every non-IDLE interval has width
\* <= quantum, and a non-IDLE interval narrower than the quantum is the last
\* interval of its process.
C4_QuantumBound ==
    (Returned /\ algo = "Round Robin") =>
        \A i \in 1..Len(gantt) :
            gantt[i].pid # IDLE =>
                /\ Width(gantt[i]) <= quantum[1]
                /\ Width(gantt[i]) < quantum[1] =>
                       \A k \in (i + 1)..Len(gantt) : gantt[k].pid # gantt[i].pid

\* C4 witness: a process ran a full quantum and later a shorter final slice
C4_Witness ==
    /\ Returned
    /\ algo = "Round Robin"
    /\ \E i, k \in 1..Len(gantt) :
          /\ i < k
          /\ gantt[i].pid # IDLE
          /\ gantt[k].pid = gantt[i].pid
          /\ Width(gantt[i]) = quantum[1]
          /\ Width(gantt[k]) < quantum[1]

\* the submission position of the process with the given pid
SubmissionIndex(pid) == CHOOSE i \in 1..Len(processes) : processes[i].pid = pid

\* the ready set at the current time: submission positions of the processes
\* that have arrived and have not been dispatched yet
ReadySet ==
    {n \in 1..Len(processes) :
        processes[n].arrival <= time /\ Owned(gantt, processes[n].pid) = {}}

\* the block appended by the step, when the step appends exactly one
Emitted == gantt'[Len(gantt')]

\* the step dispatches a process: it appends one non-IDLE block
Dispatches == Len(gantt') = Len(gantt) + 1 /\ Emitted.pid # IDLE

\* C5 (loop step): with a non-empty ready set an SJF step dispatches a
\* ready process of smallest burst; among those, one of earliest arrival;
\* among those, the one submitted first.
C5_StepPicksShortest ==
    (pc = "sjf" /\ ValidProcesses /\ gantt' # gantt /\ ReadySet # {}) =>
        /\ Dispatches
        /\ LET d == SubmissionIndex(Emitted.pid)
           IN  /\ d \in ReadySet
               /\ Emitted.start = time
               /\ \A r \in ReadySet :
                     \/ processes[d].burst < processes[r].burst
                     \/ /\ processes[d].burst = processes[r].burst
                        /\ processes[d].arrival < processes[r].arrival
                     \/ /\ processes[d].burst = processes[r].burst
                        /\ processes[d].arrival = processes[r].arrival
                        /\ d <= r

\* C5 (example): SJF on [(P1,0,7),(P2,2,4),(P3,4,1)]
C5_Example ==
    (pc = "done" /\ algo = "SJF" /\ processes = ExampleSjf) =>
        gantt = <<Block("P1", 0, 7), Block("P3", 7, 8), Block("P2", 8, 12)>>

\* C5: in SJF the process dispatched at a decision point is a ready process
\* with the smallest burst, ties broken by earliest arrival and then by
\* submission order; [(P1,0,7),(P2,2,4),(P3,4,1)] yields
\* [(P1,0,7),(P3,7,8),(P2,8,12)].
C5_SjfSelection == [][C5_StepPicksShortest]_vars /\ [](C5_Example)

\* C5 witness: SJF has just dispatched a process while another ready process
\* of the same burst but later arrival is still waiting
C5_Witness ==
    /\ pc = "sjf"
    /\ ValidProcesses
    /\ gantt # <<>>
    /\ gantt[Len(gantt)].pid # IDLE
    /\ \E i \in 1..Len(remList) :
          /\ remList[i].arrival <= gantt[Len(gantt)].start
          /\ remList[i].burst = ProcOf(gantt[Len(gantt)].pid).burst
          /\ remList[i].arrival > ProcOf(gantt[Len(gantt)].pid).arrival

\* C6 (loop step): with a non-empty ready set a Priority step dispatches a
\* ready process of lowest priority number; among those, one of earliest
\* arrival; among those, the one submitted first.
C6_StepPicksHighestPriority ==
    (pc = "priority" /\ ValidProcesses /\ gantt' # gantt /\ ReadySet # {}) =>
        /\ Dispatches
        /\ LET d == SubmissionIndex(Emitted.pid)
           IN  /\ d \in ReadySet
               /\ Emitted.start = time
               /\ \A r \in ReadySet :
                     \/ processes[d].priority < processes[r].priority
                     \/ /\ processes[d].priority = processes[r].priority
                        /\ processes[d].arrival < processes[r].arrival
                     \/ /\ processes[d].priority = processes[r].priority
                        /\ processes[d].arrival = processes[r].arrival
                        /\ d <= r

\* C6 (example): Priority on [(P1,0,4,prio 2),(P2,0,3,prio 1)]
C6_Example ==
    (pc = "done" /\ algo = "Priority" /\ processes = ExamplePriority) =>
        gantt = <<Block("P2", 0, 3), Block("P1", 3, 7)>>

\* C6: in Priority scheduling the process dispatched at a decision point is
\* a ready process with the lowest priority number, ties broken by earliest
\* arrival and then by submission order; [(P1,0,4,2),(P2,0,3,1)] yields
\* [(P2,0,3),(P1,3,7)].
C6_PrioritySelection == [][C6_StepPicksHighestPriority]_vars /\ [](C6_Example)

\* C6 witness: Priority has just dispatched a process while another ready
\* process of the same priority and the same arrival, submitted later, and a
\* ready process of a higher priority number are waiting
C6_Witness ==
    /\ pc = "priority"
    /\ ValidProcesses
    /\ gantt # <<>>
    /\ gantt[Len(gantt)].pid # IDLE
    /\ \E i \in 1..Len(remList) :
          /\ remList[i].priority = ProcOf(gantt[Len(gantt)].pid).priority
          /\ remList[i].arrival = ProcOf(gantt[Len(gantt)].pid).arrival
    /\ \E i \in 1..Len(remList) :
          /\ remList[i].arrival <= gantt[Len(gantt)].start
          /\ remList[i].priority > ProcOf(gantt[Len(gantt)].pid).priority

\* the positions of the non-IDLE intervals of g
Busy(g) == {i \in 1..Len(g) : g[i].pid # IDLE}

\* the end tick of the last non-IDLE interval before position i, 0 if none
PrevBusyEnd(g, i) ==
    IF \E k \in Busy(g) : k < i
    THEN g[CHOOSE k \in Busy(g) : k < i /\ \A m \in Busy(g) : m < i => m <= k].end
    ELSE 0

Max(a, b) == IF a >= b THEN a ELSE b

\* C7: in a returned FCFS Timeline the non-IDLE intervals are in
\* non-decreasing order of their owner's arrival, equal arrivals in
\* submission order, and each starts at max(end of the previous process's
\* interval, own arrival); [(P1,0,5),(P2,1,3)] yields [(P1,0,5),(P2,5,8)].
C7_FcfsOrder ==
    /\ (Returned /\ algo = "FCFS") =>
          /\ \A i, k \in Busy(gantt) :
                i < k =>
                    \/ ProcOf(gantt[i].pid).arrival < ProcOf(gantt[k].pid).arrival
                    \/ /\ ProcOf(gantt[i].pid).arrival = ProcOf(gantt[k].pid).arrival
                       /\ SubmissionIndex(gantt[i].pid) < SubmissionIndex(gantt[k].pid)
          /\ \A i \in Busy(gantt) :
                gantt[i].start = Max(PrevBusyEnd(gantt, i), ProcOf(gantt[i].pid).arrival)
    /\ (pc = "done" /\ algo = "FCFS" /\ processes = ExampleTwo) =>
          gantt = <<Block("P1", 0, 5), Block("P2", 5, 8)>>

\* C7 witness: a returned FCFS Timeline where a process submitted later ran
\* first, two processes share an arrival time, and one had to wait
C7_Witness ==
    /\ Returned
    /\ algo = "FCFS"
    /\ \E i, k \in 1..Len(processes) :
          i < k /\ processes[k].arrival < processes[i].arrival
    /\ \E i, k \in 1..Len(processes) :
          i < k /\ processes[k].arrival = processes[i].arrival
    /\ \E i \in Busy(gantt) : gantt[i].start > ProcOf(gantt[i].pid).arrival

\* C8: in returned FCFS, SJF and Priority Timelines every process owns
\* exactly one interval, whose width is the process's burst (no preemption).
C8_NonPreemptive ==
    (Returned /\ algo \in {"FCFS", "SJF", "Priority"}) =>
        \A n \in 1..Len(processes) :
            /\ Cardinality(Owned(gantt, processes[n].pid)) = 1
            /\ \A i \in Owned(gantt, processes[n].pid) :
                  Width(gantt[i]) = processes[n].burst

\* C8 witness: a returned SJF Timeline in which a process with a shorter
\* burst arrived strictly inside the interval of a running longer process
C8_Witness ==
    /\ Returned
    /\ algo = "SJF"
    /\ \E i \in Busy(gantt) : \E n \in 1..Len(processes) :
          /\ gantt[i].start < processes[n].arrival
          /\ processes[n].arrival < gantt[i].end
          /\ processes[n].burst < ProcOf(gantt[i].pid).burst

SetMax(S) == CHOOSE x \in S : \A y \in S : y <= x

SetMin(S) == CHOOSE x \in S : \A y \in S : x <= y

\* C9: for a returned run, compute gives each process p
\* CT = the maximum end tick among p's intervals,
\* RT = the minimum start tick among p's intervals - arrival(p),
\* TAT = CT - arrival(p) and WT = TAT - burst(p); the metrics map has an
\* entry for each process and none for the IDLE marker.  On the FCFS example
\* [(P1,0,5),(P2,1,3)]: CT(P1)=5, WT(P1)=0, CT(P2)=8, WT(P2)=4.
C9_MetricsFormulas ==
    /\ Returned =>
          /\ DOMAIN metrics = {processes[n].pid : n \in 1..Len(processes)}
          /\ \A n \in 1..Len(processes) :
                LET p   == processes[n]
                    own == Owned(gantt, p.pid)
                    m   == metrics[p.pid]
                IN  /\ own # {}
                    /\ m.CT = SetMax({gantt[i].end : i \in own})
                    /\ m.RT = SetMin({gantt[i].start : i \in own}) - p.arrival
                    /\ m.TAT = m.CT - p.arrival
                    /\ m.WT = m.TAT - p.burst
    /\ (pc = "done" /\ algo = "FCFS" /\ processes = ExampleTwo) =>
          /\ metrics["P1"].CT = 5 /\ metrics["P1"].WT = 0
          /\ metrics["P2"].CT = 8 /\ metrics["P2"].WT = 4

\* C9 witness: metrics returned for a Round Robin Timeline with an IDLE gap
\* in which a process owns several intervals and waited before its first one
C9_Witness ==
    /\ Returned
    /\ algo = "Round Robin"
    /\ \E i \in 1..Len(gantt) : gantt[i].pid = IDLE
    /\ \E n \in 1..Len(processes) :
          /\ Cardinality(Owned(gantt, processes[n].pid)) >= 2
          /\ metrics[processes[n].pid].RT > 0
          /\ metrics[processes[n].pid].WT > metrics[processes[n].pid].RT

\* a returned run on a single process that arrives at tick 0
SingleAtZero == pc = "done" /\ Len(processes) = 1 /\ processes[1].arrival = 0 /\ ValidProcesses

\* RT = 0, WT = 0 and TAT = burst for the single process
SingleMetrics ==
    LET m == metrics[processes[1].pid]
    IN  m.RT = 0 /\ m.WT = 0 /\ m.TAT = processes[1].burst

\* C10 as stated: for every discipline, a run on a single process with
\* arrival 0 returns a Timeline of exactly one interval and RT = 0, WT = 0,
\* TAT = burst.
C10_SingleOneInterval ==
    SingleAtZero => (Len(gantt) = 1 /\ SingleMetrics)

\* C10 amended: a run on a single process with arrival 0 and burst b returns
\* RT = 0, WT = 0, TAT = b and a Timeline without IDLE intervals, all owned by
\* the process: exactly one interval for FCFS, SJF, Priority and for Round
\* Robin with quantum >= b, and ceil(b / quantum) intervals for Round Robin
\* with quantum < b.
C10_SingleProcess ==
    SingleAtZero =>
        /\ SingleMetrics
        /\ \A i \in 1..Len(gantt) : gantt[i].pid = processes[1].pid
        /\ Len(gantt) = IF algo = "Round Robin"
                        THEN (processes[1].burst + quantum[1] - 1) \div quantum[1]
                        ELSE 1

\* C10 witness: a Round Robin run on a single process whose burst exceeds
\* the quantum
C10_Witness ==
    /\ SingleAtZero
    /\ algo = "Round Robin"
    /\ quantum[1] < processes[1].burst
    /\ Len(gantt) >= 2

\* the quantum argument is a positive integer
QuantumValid == quantum # None /\ quantum[1] > 0

\* the call can reach a builder's loop and the metrics calculator
Routable == algo \in Recognized /\ (algo = "Round Robin" => QuantumValid)

\* no builder has run and no metric has been computed
NothingProduced ==
    /\ gantt = <<>>
    /\ sortedProcs = <<>>
    /\ remList = <<>>
    /\ ready = <<>>
    /\ time = 0
    /\ metrics = EmptyMap
    /\ summary = EmptyMap

\* C11: run routes FCFS, SJF, Priority and Round Robin each to its own
\* builder; a recognised discipline never fails as unknown and, for a
\* non-empty process list and a usable quantum, never fails at all; a
\* returned run holds the Timeline, the metrics map and the summary; any
\* other discipline value fails with the unknown-discipline error without
\* running a builder or the metrics calculator.
C11_Dispatch ==
    /\ pc = "fcfs" => algo = "FCFS"
    /\ pc = "sjf" => algo = "SJF"
    /\ pc = "priority" => algo = "Priority"
    /\ pc = "rr" => algo = "Round Robin"
    /\ (algo \in Recognized /\ pc = "raised") => error # UnknownAlgoError
    /\ (Routable /\ processes # <<>>) => pc # "raised"
    /\ pc = "done" =>
          /\ algo \in Recognized
          /\ gantt # <<>>
          /\ DOMAIN metrics = PidSet(processes)
          /\ DOMAIN summary = {"avg_wt", "avg_tat", "throughput", "total_time"}
    /\ (algo \notin Recognized /\ pc # "call") =>
          /\ pc = "raised"
          /\ error = UnknownAlgoError
          /\ NothingProduced

\* C11 witness: a call with an unrecognised discipline on a non-empty
\* process list has failed
C11_Witness ==
    /\ pc = "raised"
    /\ algo \notin Recognized
    /\ processes # <<>>
    /\ error = UnknownAlgoError

\* C12: a Round Robin call whose quantum is absent or <= 0 fails with the
\* invalid-quantum error (the ValueError simulate_rr raises for a bad
\* quantum) before any interval is emitted or any metric computed, for every
\* process list including the empty one.
C12_BadQuantumRejected ==
    (algo = "Round Robin" /\ ~QuantumValid /\ pc # "call") =>
        /\ pc = "raised"
        /\ error = QuantumError
        /\ NothingProduced

\* the dedicated empty-input failure the specification allows
EmptyInputError == "EmptyInput"

\* C13: a run on an empty process list (recognised discipline, usable
\* quantum) ends in a defined outcome: the empty-input failure, or a returned
\* zero-valued summary with an empty Timeline and an empty metrics map.
C13_EmptyInputDefined ==
    (processes = <<>> /\ Routable /\ pc \in {"done", "raised"}) =>
        \/ pc = "raised" /\ error = EmptyInputError
        \/ /\ pc = "done"
           /\ gantt = <<>>
           /\ metrics = EmptyMap
           /\ summary.avg_wt.num = 0
           /\ summary.avg_tat.num = 0
           /\ summary.throughput.num = 0
           /\ summary.total_time = 0

\* the run has returned or raised
Finished == pc \in {"done", "raised"}

\* sum(remaining.values()) over the processes of the run
RECURSIVE TotalRemaining(_, _)
TotalRemaining(procs, rem) ==
    IF procs = <<>> THEN 0
    ELSE rem[Head(procs).pid] + TotalRemaining(Tail(procs), rem)

\* one loop iteration of a builder: the step stays inside the loop
LoopStep(at) == pc = at /\ pc' = at

\* a Round Robin iteration: a slice lowers the total remaining burst; an idle
\* iteration moves the clock forward to the arrival of the next process not
\* yet admitted and admits at least that process
C14_RrProgress ==
    LoopStep("rr") =>
        IF ready # <<>>
        THEN TotalRemaining(sortedProcs, remaining') < TotalRemaining(sortedProcs, remaining)
        ELSE /\ time' > time
             /\ time' = sortedProcs[idx].arrival
             /\ \A i \in idx..Len(sortedProcs) : sortedProcs[i].arrival >= time'
             /\ idx' > idx
             /\ ready' # <<>>
             /\ remaining' = remaining

\* an SJF / Priority iteration: a dispatch removes exactly one process; an
\* idle iteration removes none and moves the clock forward
C14_NpProgress ==
    \A at \in {"sjf", "priority"} :
        LoopStep(at) =>
            IF ReadyAt(remList, time) # <<>>
            THEN Len(remList') = Len(remList) - 1
            ELSE remList' = remList /\ time' > time

\* what the loops have reached when a run with a valid process set returns
C14_LoopEnd ==
    pc = "done" /\ ValidProcesses =>
        /\ algo = "Round Robin" =>
              /\ idx > Len(sortedProcs)
              /\ ready = <<>>
              /\ \A i \in 1..Len(processes) : remaining[processes[i].pid] = 0
        /\ algo \in {"SJF", "Priority"} => remList = <<>>

\* C14: every call of run_scheduler ends (it returns or raises). In Round
\* Robin every slice strictly decreases the total remaining burst and every
\* idle iteration strictly advances the time to the arrival of a process not
\* yet admitted and admits at least one; the loop ends with every process
\* admitted and every remaining burst 0. In SJF and Priority every dispatch
\* removes one process and every idle iteration strictly advances the time.
C14_Terminates ==
    /\ [][C14_RrProgress /\ C14_NpProgress]_vars
    /\ []C14_LoopEnd
    /\ (pc = "call") ~> Finished

\* a Round Robin run that waited idle for an arrival, cut a process into
\* several slices, and returned
C14_Witness ==
    /\ pc = "done"
    /\ algo = "Round Robin"
    /\ \E i \in 1..Len(gantt) : gantt[i].pid = IDLE
    /\ \E i, j \in 1..Len(gantt) :
          i < j /\ gantt[i].pid # IDLE /\ gantt[i].pid = gantt[j].pid
    /\ \A i \in 1..Len(processes) : remaining[processes[i].pid] = 0

\* the structures a builder consumes are its own: at the return the working
\* list of SJF / Priority is empty and the remaining bursts of Round Robin are
\* 0, while the caller's list still holds every process with its burst
C15_LocalsConsumed ==
    Returned =>
        /\ algo \in {"SJF", "Priority"} => remList = <<>>
        /\ algo = "Round Robin" =>
              \A i \in 1..Len(processes) :
                  remaining[processes[i].pid] = 0 /\ processes[i].burst > 0

\* C15: a call of run_scheduler never changes the caller's process list: at
\* every step of the call, and so at its return, the list holds the same
\* processes in the same order with the same pid, arrival, burst and priority;
\* the removals and decrements act on structures local to the call.
C15_InputsUnchanged ==
    /\ [][processes' = processes]_vars
    /\ []C15_LocalsConsumed

\* a returned SJF or Round Robin run whose list was not in arrival order, so
\* the builder worked on a reordered copy
C15_Witness ==
    /\ Returned
    /\ algo \in {"SJF", "Round Robin"}
    /\ Len(processes) = 3
    /\ processes # SortedByArrival(processes)
    /\ algo = "SJF" => remList = <<>>
    /\ algo = "Round Robin" => sortedProcs = SortedByArrival(processes)

\* a builder is at the head of its loop, on a valid process set
InLoop == pc \in {"fcfs", "sjf", "priority", "rr"} /\ ValidProcesses

\* the processes whose burst the Timeline built so far does not yet cover
Unfinished ==
    {i \in 1..Len(processes) :
        SumWidths(gantt, Owned(gantt, processes[i].pid)) < processes[i].burst}

\* unfinished work remains and none of it has arrived by the current time
MustIdle ==
    /\ InLoop
    /\ Unfinished # {}
    /\ \A i \in Unfinished : processes[i].arrival > time

\* the smallest arrival among the processes that have not yet arrived
NextArrival == SetMin({processes[i].arrival : i \in Unfinished})

\* the loop iteration taken from a state that must idle appends IDLE [t, a);
\* FCFS appends the next process's interval in the same iteration
C16_StepEmitsIdle ==
    MustIdle =>
        /\ Len(gantt') >= Len(gantt) + 1
        /\ SubSeq(gantt', 1, Len(gantt)) = gantt
        /\ gantt'[Len(gantt) + 1] = Block(IDLE, time, NextArrival)
        /\ time < NextArrival
        /\ IF pc = "fcfs"
           THEN /\ Len(gantt') = Len(gantt) + 2
                /\ gantt'[Len(gantt) + 2].pid # IDLE
                /\ gantt'[Len(gantt) + 2].start = NextArrival
           ELSE /\ Len(gantt') = Len(gantt) + 1
                /\ time' = NextArrival
                /\ pc' = pc

\* a Timeline under construction that ends with an IDLE interval is
\* continued by exactly one interval, non-IDLE, starting where the IDLE ends
C16_StepResumesDispatch ==
    InLoop /\ gantt # <<>> /\ gantt[Len(gantt)].pid = IDLE =>
        /\ Len(gantt') = Len(gantt) + 1
        /\ SubSeq(gantt', 1, Len(gantt)) = gantt
        /\ gantt'[Len(gantt')].pid # IDLE
        /\ gantt'[Len(gantt')].start = gantt[Len(gantt)].end

\* in Round Robin the state that must idle is the one with an empty ready
\* queue and processes still to admit
C16_RrIdleState ==
    InLoop /\ pc = "rr" => (MustIdle <=> ready = <<>> /\ idx <= Len(sortedProcs))

\* C16: in every discipline, when the time is t, unfinished work remains
\* and no unfinished process has arrived by t (Round Robin: the ready queue
\* is empty and processes remain to be admitted), the builder emits exactly
\* one IDLE interval [t, a), a the smallest arrival among the processes not
\* yet arrived, and the next interval it emits is non-IDLE and starts at a.
C16_IdleUntilNextArrival ==
    /\ [][C16_StepEmitsIdle /\ C16_StepResumesDispatch]_vars
    /\ []C16_RrIdleState

\* a returned run that idled in the middle of the Timeline, between two
\* processes, and resumed at the arrival
C16_Witness ==
    /\ Returned
    /\ \E i \in 2..(Len(gantt) - 1) :
          /\ gantt[i].pid = IDLE
          /\ gantt[i - 1].pid # IDLE
          /\ gantt[i].start < gantt[i].end
          /\ gantt[i + 1].pid # IDLE
          /\ gantt[i + 1].start = gantt[i].end

\* the Round Robin loop is at its head, on a valid process set
RrLoop == pc = "rr" /\ ValidProcesses

\* the processes admitted so far: those before position idx of the sorted list
Admitted == {sortedProcs[i].pid : i \in 1..(idx - 1)}

\* at the head of the loop no pid is queued twice, the admitted processes are
\* those that have arrived by the current time, and the queue holds exactly
\* the admitted processes with remaining burst > 0
C17_QueueState ==
    RrLoop =>
        /\ \A i, j \in 1..Len(ready) : ready[i].pid = ready[j].pid => i = j
        /\ \A i \in 1..Len(sortedProcs) : i < idx <=> sortedProcs[i].arrival <= time
        /\ PidSet(ready) = {pid \in Admitted : remaining[pid] > 0}

\* one iteration: the queue loses its head p, gains the newly admitted
\* processes (none of them queued or admitted before), and then gains p again
\* if p has burst left; while p runs, p is not in the queue
C17_StepAdmitsOnce ==
    RrLoop /\ pc' = "rr" =>
        LET new  == SubSeq(sortedProcs, idx, idx' - 1)
            rest == IF ready = <<>> THEN <<>> ELSE Tail(ready)
        IN  /\ idx' >= idx
            /\ PidSet(new) \cap (PidSet(ready) \cup Admitted) = {}
            /\ \A i \in 1..Len(new) : time < new[i].arrival /\ new[i].arrival <= time'
            /\ IF ready = <<>>
               THEN ready' = new
               ELSE LET p == Head(ready)
                    IN  /\ p.pid \notin PidSet(rest \o new)
                        /\ ready' = IF remaining'[p.pid] > 0
                                     THEN (rest \o new) \o <<p>>
                                     ELSE rest \o new

\* C17: at every step of the Round Robin loop on a valid process set the
\* ready queue holds each process at most once: a process enters on its
\* admission, once, when the time first reaches its arrival, and afterwards
\* only by its own re-queue after being popped; the queue holds exactly the
\* admitted processes with remaining burst > 0 other than the one running.
C17_ReadyQueueNoDuplicates ==
    /\ []C17_QueueState
    /\ [][C17_StepAdmitsOnce]_vars

\* the head of the loop with two processes queued, one of them re-queued
\* after a slice, and a third process not yet admitted
C17_Witness ==
    /\ RrLoop
    /\ Len(ready) = 2
    /\ idx = Len(sortedProcs)
    /\ \E i \in 1..Len(ready) :
          /\ remaining[ready[i].pid] < ready[i].burst
          /\ remaining[ready[i].pid] > 0

\* every non-IDLE interval of the Timeline built so far starts at or after
\* the arrival of its owner
C20_StartsAfterArrival ==
    (InLoop \/ Returned) =>
        \A i \in 1..Len(gantt) :
            gantt[i].pid # IDLE => gantt[i].start >= ProcOf(gantt[i].pid).arrival

\* the metrics of a returned run: no negative response or waiting time, and
\* no completion before arrival + burst
C20_MetricsNonNegative ==
    Returned =>
        \A i \in 1..Len(processes) :
            LET p == processes[i]
            IN  /\ metrics[p.pid].RT >= 0
                /\ metrics[p.pid].WT >= 0
                /\ metrics[p.pid].CT >= p.arrival + p.burst

\* C20: for a valid process set and every discipline, no process is
\* dispatched before it arrives: every non-IDLE interval owned by p starts at
\* or after arrival(p); so RT >= 0, WT >= 0 and CT >= arrival + burst for
\* every process.
C20_NoDispatchBeforeArrival == C20_StartsAfterArrival /\ C20_MetricsNonNegative

\* a returned run in which one process started exactly at its arrival, later
\* than tick 0, and another had to wait
C20_Witness ==
    /\ Returned
    /\ \E i, j \in 1..Len(processes) :
          LET p == processes[i]
              q == processes[j]
          IN  /\ p.arrival > 0
              /\ metrics[p.pid].RT = 0
              /\ metrics[p.pid].CT = p.arrival + p.burst
              /\ metrics[q.pid].RT > 0
              /\ metrics[q.pid].WT > 0

\* C18: after any sequence of add_process and clear_processes operations the
\* process list handed to run_scheduler never holds two processes with the
\* same identifier.
C18_UniquePidsHandedOver ==
    pc = "call" =>
        \A i, j \in 1..Len(processes) : processes[i].pid = processes[j].pid => i = j

\* the form, as the claim words it: pid, arrival or burst missing, arrival,
\* burst or priority not an integer, arrival negative, or burst <= 0
C19_FormInvalid ==
    LET pid   == Strip(ui.entry_pid)
        arr   == Strip(ui.entry_arr)
        burst == Strip(ui.entry_burst)
        pr    == Strip(ui.entry_pr)
    IN  \/ pid = "" \/ arr = "" \/ burst = ""
        \/ ~IsIntLiteral(arr) \/ ~IsIntLiteral(burst)
        \/ pr # "" /\ ~IsIntLiteral(pr)
        \/ IsIntLiteral(arr) /\ IntValue(arr) < 0
        \/ IsIntLiteral(burst) /\ IntValue(burst) <= 0

\* every process of the list has an integer arrival >= 0 and burst > 0
C19_ListValid ==
    \A i \in 1..Len(processes) :
        /\ processes[i].arrival \in Nat
        /\ processes[i].burst \in Nat \ {0}

\* an add_process call on an invalid form shows a message box and leaves
\* the list and the form as they are; on a valid form it appends the process
\* the form describes and empties the form
C19_StepAdd ==
    AddProcess =>
        IF C19_FormInvalid
        THEN /\ processes' = processes
             /\ ui'.dialog \in {"Input Error", "Invalid Input"}
             /\ ui' = [ui EXCEPT !.dialog = ui'.dialog]
        ELSE /\ Len(processes') = Len(processes) + 1
             /\ SubSeq(processes', 1, Len(processes)) = processes
             /\ processes'[Len(processes')].pid = Strip(ui.entry_pid)
             /\ processes'[Len(processes')].arrival = IntValue(Strip(ui.entry_arr))
             /\ processes'[Len(processes')].burst = IntValue(Strip(ui.entry_burst))
             /\ ui' = BlankUi

\* the list grows only by an add_process call on a valid form
C19_StepGrows ==
    Len(processes') > Len(processes) => pc = "ui" /\ ~C19_FormInvalid

\* C19: after any sequence of add_process and clear_processes operations,
\* every process of the list handed to run_scheduler has an integer arrival
\* >= 0 and an integer burst > 0; an add_process call whose pid, arrival or
\* burst is missing, whose arrival, burst or priority is not an integer, whose
\* arrival is negative or whose burst is <= 0 is rejected and leaves the list
\* unchanged.
C19_AddProcessValidates ==
    /\ []C19_ListValid
    /\ [][C19_StepAdd /\ C19_StepGrows]_vars

\* one process was accepted (its texts stripped and parsed), then a form
\* with a negative arrival was rejected
C19_Witness ==
    /\ pc = "ui"
    /\ processes = <<Process("P2", 1, 2, 1)>>
    /\ ui.entry_arr = "-1"
    /\ ui.entry_pid = "P1"
    /\ ui.entry_burst = "2"
    /\ ui.dialog = "Invalid Input"

\* the largest burst of the process list
MaxBurstOf(procs) == SetMax({procs[i].burst : i \in 1..Len(procs)})

\* a returned Round Robin run whose quantum is at least the largest burst
RrWithLargeQuantum ==
    /\ Returned
    /\ algo = "Round Robin"
    /\ quantum[1] >= MaxBurstOf(processes)

\* the Timeline simulate_fcfs computes in one piece is the one the FCFS run
\* builds step by step
C21_FcfsReference ==
    Returned /\ algo = "FCFS" => gantt = simulate_fcfs(processes)

\* C21: for a valid process set, Round Robin with a quantum q >= the largest
\* burst returns exactly the Timeline FCFS returns on the same process set:
\* the same owners, starts, ends and IDLE intervals, in the same order.
C21_LargeQuantumIsFcfs ==
    /\ C21_FcfsReference
    /\ RrWithLargeQuantum => gantt = simulate_fcfs(processes)

\* such a run on three processes submitted out of arrival order, two of
\* them arriving together, with an IDLE gap and a burst equal to the quantum
C21_Witness ==
    /\ RrWithLargeQuantum
    /\ Len(processes) = 3
    /\ processes # SortedByArrival(processes)
    /\ \E i, j \in 1..3 : i # j /\ processes[i].arrival = processes[j].arrival
    /\ \E i \in 1..3 : processes[i].burst = quantum[1]
    /\ \E i \in 1..Len(gantt) : gantt[i].pid = IDLE

====
